---- MODULE Spec2Model ----
(***************************************************************************)
(* Return-value validators of pd_typeguard (decorators.py, exceptions.py). *)
(* A validator is either called directly (validate(value)) or wraps a      *)
(* function (ReturnValueDecorator.__call__); validate is modelled as the   *)
(* sequence of checks the source performs.                                 *)
(***************************************************************************)
EXTENDS Integers, Sequences, FiniteSets, TLC

VARIABLES chain, mode, args, fcn_value, pc, stage, value, is_empty, outcomes, log

vars == <<chain, mode, args, fcn_value, pc, stage, value, is_empty, outcomes, log>>

(***************************************************************************)
(* Bounds of the explored inputs.                                          *)
(***************************************************************************)
MaxRows == 3
MaxLen == 1
WrapRows == 1

ColNames == {"a", "b"}
WrapColNames == {"a"}
CellValues == {"x", "y"}
NULL == "NaN"
DtypeTags == {"int64", "object"}
ArgTuples == {<<>>, <<"p">>}

Range(s) == {s[i] : i \in 1..Len(s)}

(***************************************************************************)
(* exceptions.py: every category derives from ReturnValueError; the        *)
(* builtin AttributeError does not.                                        *)
(***************************************************************************)
Parent ==
  [e \in {"ReturnValueError", "DFEmptyError", "MissingColumnError", "WrongDtypeError",
          "ColumnNullError", "ColumnNotUniqueError", "ColumnNotSingleValueError",
          "AttributeError"} |->
     IF e \in {"ReturnValueError", "AttributeError"} THEN "Exception" ELSE "ReturnValueError"]

IsReturnValueError(e) == e = "ReturnValueError" \/ Parent[e] = "ReturnValueError"

(***************************************************************************)
(* Values a function may return.  Every value but None carries the         *)
(* identity of the instance.                                               *)
(***************************************************************************)
NONE == [kind |-> "none"]

Scalars == {[kind |-> "scalar", id |-> "obj"]}

Sized(maxLen) == {[kind |-> "sized", id |-> "obj", len |-> n] : n \in 0..maxLen}

\* The code compares cells only for equality and for being null, so columns
\* are listed up to renaming of the non-null values: the first non-null
\* cell of a column is "x".
Canonical(s) ==
  \A i \in 1..Len(s) : (\A j \in 1..(i - 1) : s[j] = NULL) => s[i] \in {NULL, "x"}

\* An int64 column holds no null; an object column holds any cell.
ColumnsOfLen(n) ==
  {[dtype |-> "int64", cells |-> s] : s \in {t \in [1..n -> CellValues] : Canonical(t)}}
    \cup {[dtype |-> "object", cells |-> s] :
             s \in {t \in [1..n -> CellValues \cup {NULL}] : Canonical(t)}}

Tables(maxRows, names) ==
  UNION {{[kind |-> "table", id |-> "obj", rows |-> n, cols |-> f] :
            f \in [cs -> ColumnsOfLen(n)]} : n \in 0..maxRows, cs \in SUBSET names}

Values(maxRows, names) ==
  {NONE} \cup Scalars \cup Sized(MaxLen) \cup Tables(maxRows, names)

(***************************************************************************)
(* What Python and pandas answer about a value.                            *)
(***************************************************************************)
HasLen(x) == x.kind \in {"sized", "table"}

PyLen(x) == IF x.kind = "table" THEN x.rows ELSE x.len

HasColumnsAttr(x) == x.kind = "table"

ColumnsOf(x) == DOMAIN x.cols

IsNullCount(cells) == Cardinality({i \in 1..Len(cells) : cells[i] = NULL})

\* Series.duplicated(): a cell is a duplicate when an equal cell precedes it.
Duplicated(cells) == {i \in 1..Len(cells) : \E j \in 1..(i - 1) : cells[j] = cells[i]}

Min(S) == CHOOSE m \in S : \A k \in S : m <= k

\* Series.nunique(): the number of distinct cells, nulls dropped.
NUnique(cells) == Cardinality(Range(cells) \ {NULL})

\* Series.unique(): the distinct cells in order of first appearance, nulls kept.
Unique(cells) ==
  LET first == {i \in 1..Len(cells) : i \notin Duplicated(cells)}
      F[k \in 0..Len(cells)] ==
        IF k = 0 THEN <<>>
        ELSE IF k \in first THEN Append(F[k - 1], cells[k]) ELSE F[k - 1]
  IN F[Len(cells)]

Head2(s) == SubSeq(s, 1, IF Len(s) < 2 THEN Len(s) ELSE 2)

Orders(S) == {s \in [1..Cardinality(S) -> S] : Range(s) = S}

(***************************************************************************)
(* Validator configurations (the __init__ methods).                        *)
(***************************************************************************)
NotEmptyValidators ==
  {[type |-> "NotEmpty", allow_none |-> n, allow_scalar |-> s] : n \in BOOLEAN, s \in BOOLEAN}

HasColumnValidators(names) ==
  {[type |-> t, columns |-> cs, allow_none |-> n, allow_empty |-> e] :
     t \in {"HasColumn", "ColumnUnique", "ColumnSingleValue"},
     cs \in SUBSET names, n \in BOOLEAN, e \in BOOLEAN}

ColumnHasDtypeValidators(names) ==
  UNION {{[type |-> "ColumnHasDtype", columns |-> cs, dtypes |-> d,
           allow_none |-> n, allow_empty |-> e] :
            d \in [cs -> DtypeTags], n \in BOOLEAN, e \in BOOLEAN} : cs \in SUBSET names}

ColumnNotNullValidators(names) ==
  UNION {{[type |-> "ColumnNotNull", columns |-> cs, notnull |-> p,
           allow_none |-> n, allow_empty |-> e] :
            p \in [cs -> {"any", "all"}], n \in BOOLEAN, e \in BOOLEAN} : cs \in SUBSET names}

Validators(names) ==
  NotEmptyValidators \cup HasColumnValidators(names)
    \cup ColumnHasDtypeValidators(names) \cup ColumnNotNullValidators(names)

ColumnTypes == {"HasColumn", "ColumnHasDtype", "ColumnNotNull", "ColumnUnique", "ColumnSingleValue"}

(***************************************************************************)
(* Outcomes of a check: go on, return a value, raise an exception.         *)
(***************************************************************************)
Continue == [kind |-> "continue"]

Raise(exc, info) == [kind |-> "raised", exc |-> exc, info |-> info]

Return(x) == [kind |-> "returned", ret |-> x]

(***************************************************************************)
(* The checks of validate, each giving the outcome of its piece of code.   *)
(***************************************************************************)
\* Variant of NoneOutcome that forgets "return None": None goes on to the checks.
NoneOutcome_FallThrough(v, x) ==
  IF x = NONE /\ ~v.allow_none THEN Raise("DFEmptyError", "none") ELSE Continue

\* NotEmpty.validate / HasColumn.validate: the "value is None" branch.
NoneOutcome(v, x) ==
  IF x = NONE
    THEN IF ~v.allow_none THEN Raise("DFEmptyError", "none") ELSE Return(NONE)
    ELSE Continue

\* Variant of LenOutcome whose except clause also swallows the DFEmptyError
\* raised inside the try block.
LenOutcome_BroadExcept(v, x) ==
  IF HasLen(x) /\ PyLen(x) # 0 THEN Return(x)
  ELSE IF ~v.allow_scalar THEN Raise("DFEmptyError", "scalar") ELSE Return(x)

\* NotEmpty.validate: len(value) inside try, TypeError for a value without length.
LenOutcome(v, x) ==
  IF HasLen(x)
    THEN IF PyLen(x) = 0 THEN Raise("DFEmptyError", "empty") ELSE Return(x)
    ELSE IF ~v.allow_scalar THEN Raise("DFEmptyError", "scalar") ELSE Return(x)

\* Variant of HasColumnsOutcome that coerces a value without columns into
\* MissingColumnError.
HasColumnsOutcome_Coerce(v, x) ==
  IF ~HasColumnsAttr(x)
    THEN Raise("MissingColumnError", v.columns)
    ELSE LET missing_columns == v.columns \ ColumnsOf(x)
         IN IF Cardinality(missing_columns) # 0
              THEN Raise("MissingColumnError", missing_columns)
              ELSE Continue

\* Variant of HasColumnsOutcome that looks at the length before the columns.
HasColumnsOutcome_EmptyFirst(v, x) ==
  IF ~HasColumnsAttr(x)
    THEN Raise("AttributeError", "columns")
    ELSE IF PyLen(x) = 0 /\ ~v.allow_empty
           THEN Raise("DFEmptyError", "length 0")
           ELSE LET missing_columns == v.columns \ ColumnsOf(x)
                IN IF Cardinality(missing_columns) # 0
                     THEN Raise("MissingColumnError", missing_columns)
                     ELSE Continue

\* HasColumn._validate_has_columns
HasColumnsOutcome(v, x) ==
  IF ~HasColumnsAttr(x)
    THEN Raise("AttributeError", "columns")
    ELSE LET missing_columns == v.columns \ ColumnsOf(x)
         IN IF Cardinality(missing_columns) # 0
              THEN Raise("MissingColumnError", missing_columns)
              ELSE Continue

\* HasColumn._validate_empty
EmptyOutcome(v, x) ==
  IF PyLen(x) = 0
    THEN IF v.allow_empty
           THEN [kind |-> "continue", is_empty |-> TRUE]
           ELSE Raise("DFEmptyError", "length 0")
    ELSE [kind |-> "continue", is_empty |-> FALSE]

\* HasColumn._validate_details
HasColumnDetails(v, x, empty, order) == Continue

\* Variant of DtypeDetails that stops at the first mismatch.
DtypeDetails_FailFast(v, x, empty, order) ==
  LET Wrong(column) == x.cols[column].dtype # v.dtypes[column]
      all_wrong == SelectSeq(order, Wrong)
      wrong_dtypes == IF Len(all_wrong) = 0 THEN all_wrong ELSE <<all_wrong[1]>>
  IN IF Len(wrong_dtypes) # 0
       THEN Raise("WrongDtypeError",
                  [i \in 1..Len(wrong_dtypes) |->
                     [column |-> wrong_dtypes[i],
                      actual |-> x.cols[wrong_dtypes[i]].dtype,
                      expected |-> v.dtypes[wrong_dtypes[i]]]])
       ELSE Continue

\* ColumnHasDtype._validate_details; order is the iteration order of self.dtypes.
DtypeDetails(v, x, empty, order) ==
  LET Wrong(column) == x.cols[column].dtype # v.dtypes[column]
      wrong_dtypes == SelectSeq(order, Wrong)
  IN IF Len(wrong_dtypes) # 0
       THEN Raise("WrongDtypeError",
                  [i \in 1..Len(wrong_dtypes) |->
                     [column |-> wrong_dtypes[i],
                      actual |-> x.cols[wrong_dtypes[i]].dtype,
                      expected |-> v.dtypes[wrong_dtypes[i]]]])
       ELSE Continue

\* Variant of NotNullAny comparing with <= instead of <.
NotNullAny_OffByOne(x, null_per_column) ==
  {c \in DOMAIN null_per_column : null_per_column[c] <= PyLen(x)}

\* The columns with fewer nulls than rows (ColumnNotNull, notnull_any).
NotNullAny(x, null_per_column) == {c \in DOMAIN null_per_column : null_per_column[c] < PyLen(x)}

\* The columns without nulls (ColumnNotNull, notnull_all).
NotNullAll(x, null_per_column) == {c \in DOMAIN null_per_column : null_per_column[c] = 0}

\* ColumnNotNull._validate_details; order is the iteration order of self.notnull.
NotNullDetails(v, x, empty, order) ==
  IF empty THEN Continue
  ELSE
    LET null_per_column == [c \in ColumnsOf(x) |-> IsNullCount(x.cols[c].cells)]
        notnull_all == NotNullAll(x, null_per_column)
        notnull_any == NotNullAny(x, null_per_column)
        Wrong(column) ==
          \/ v.notnull[column] = "any" /\ column \notin notnull_any
          \/ v.notnull[column] = "all" /\ column \notin notnull_all
        wrong_content == SelectSeq(order, Wrong)
    IN IF Len(wrong_content) # 0
         THEN Raise("ColumnNullError",
                    [i \in 1..Len(wrong_content) |->
                       [column |-> wrong_content[i],
                        nulls |-> null_per_column[wrong_content[i]],
                        expected |-> v.notnull[wrong_content[i]]]])
         ELSE Continue

\* ColumnUnique._validate_details; order is the iteration order of self.columns.
UniqueDetails(v, x, empty, order) ==
  IF empty THEN Continue
  ELSE
    LET failing == {i \in 1..Len(order) : Duplicated(x.cols[order[i]].cells) # {}}
    IN IF failing # {}
         THEN LET col == order[Min(failing)]
              IN Raise("ColumnNotUniqueError",
                       [column |-> col,
                        item |-> x.cols[col].cells[Min(Duplicated(x.cols[col].cells))]])
         ELSE Continue

\* ColumnSingleValue._validate_details; order is the iteration order of self.columns.
SingleValueDetails(v, x, empty, order) ==
  IF empty THEN Continue
  ELSE
    LET failing == {i \in 1..Len(order) : NUnique(x.cols[order[i]].cells) > 1}
    IN IF failing # {}
         THEN LET col == order[Min(failing)]
              IN Raise("ColumnNotSingleValueError",
                       [column |-> col, values |-> Head2(Unique(x.cols[col].cells))])
         ELSE Continue

\* The hook the validator's class defines.
DetailsOutcome(v, x, empty, order) ==
  CASE v.type = "HasColumn" -> HasColumnDetails(v, x, empty, order)
    [] v.type = "ColumnHasDtype" -> DtypeDetails(v, x, empty, order)
    [] v.type = "ColumnNotNull" -> NotNullDetails(v, x, empty, order)
    [] v.type = "ColumnUnique" -> UniqueDetails(v, x, empty, order)
    [] v.type = "ColumnSingleValue" -> SingleValueDetails(v, x, empty, order)

\* Variant of ReturnValue that hands back a copy of the value.
ReturnValue_Copy(x) == Return([x EXCEPT !.id = "copy"])

\* HasColumn.validate: "return value" after the checks.
ReturnValue(x) == Return(x)

\* validate as a function of the validator, the value and the iteration order.
ValidateOp(v, x, order) ==
  LET n == NoneOutcome(v, x)
  IN IF n.kind # "continue" THEN n
     ELSE IF v.type = "NotEmpty" THEN LenOutcome(v, x)
     ELSE LET h == HasColumnsOutcome(v, x)
          IN IF h.kind # "continue" THEN h
             ELSE LET e == EmptyOutcome(v, x)
                  IN IF e.kind # "continue" THEN e
                     ELSE LET d == DetailsOutcome(v, x, e.is_empty, order)
                          IN IF d.kind # "continue" THEN d ELSE ReturnValue(x)

OrdersOf(v) == IF v.type = "NotEmpty" THEN {<<>>} ELSE Orders(v.columns)

(***************************************************************************)
(* State: chain is the sequence of validators applied to the function, the *)
(* innermost first (a direct validate call has a chain of one); value is   *)
(* the argument of the validate call in progress; outcomes are the         *)
(* outcomes of the validate calls completed; log lists the steps taken.    *)
(***************************************************************************)
Cur == chain[stage]

Chains(V) == {<<v>> : v \in V} \cup {<<v, w>> : v \in V, w \in V}

\* validator.validate(x) called directly
InitDirect ==
  /\ mode = "direct"
  /\ \E v \in Validators(ColNames) : chain = <<v>>
  /\ args = <<>>
  /\ fcn_value \in Values(MaxRows, ColNames)
  /\ value = fcn_value
  /\ pc = "none"
  /\ stage = 1
  /\ is_empty = FALSE
  /\ outcomes = <<>>
  /\ log = <<>>

\* a function decorated with one or two validators, about to be invoked
InitDecorated ==
  /\ mode = "decorated"
  /\ chain \in Chains(Validators(WrapColNames))
  /\ args \in ArgTuples
  /\ fcn_value \in Values(WrapRows, WrapColNames)
  /\ value = NONE
  /\ pc = "call"
  /\ stage = 1
  /\ is_empty = FALSE
  /\ outcomes = <<>>
  /\ log = <<>>

Init == InitDirect \/ InitDecorated

Step(name) == [stage |-> stage, step |-> name]

\* inner: the arguments handed to the wrapped function
PassedArgs(a) == a

\* inner: result = fcn(*args, **kwargs)
CallFcn ==
  /\ pc = "call"
  /\ log' = Append(log, [stage |-> 0, step |-> "fcn", args |-> PassedArgs(args)])
  /\ value' = fcn_value
  /\ pc' = "none"
  /\ UNCHANGED <<chain, mode, args, fcn_value, stage, is_empty, outcomes>>

\* Variant of AfterValidate in which the value returned by the inner
\* validator is handed to the caller without entering the enclosing wrapper.
AfterValidate_SkipOuter(out, stg, n) == out.kind

\* inner: what follows an outcome of self.validate(result): an exception
\* propagates to the caller, a returned value goes to the enclosing wrapper.
AfterValidate(out, stg, n) ==
  IF out.kind = "returned" /\ stg < n THEN "next" ELSE out.kind

\* validate ends with outcome out ("return self.validate(result)")
Finish(out) ==
  /\ outcomes' = Append(outcomes, out)
  /\ IF AfterValidate(out, stage, Len(chain)) = "next"
       THEN /\ stage' = stage + 1
            /\ value' = out.ret
            /\ pc' = "none"
       ELSE /\ pc' = AfterValidate(out, stage, Len(chain))
            /\ UNCHANGED <<stage, value>>
  /\ is_empty' = FALSE

ValidateNone ==
  /\ pc = "none"
  /\ log' = Append(log, Step("none"))
  /\ LET out == NoneOutcome(Cur, value)
     IN IF out.kind = "continue"
          THEN /\ pc' = IF Cur.type = "NotEmpty" THEN "len" ELSE "has_columns"
               /\ UNCHANGED <<stage, value, is_empty, outcomes>>
          ELSE Finish(out)
  /\ UNCHANGED <<chain, mode, args, fcn_value>>

ValidateLen ==
  /\ pc = "len"
  /\ log' = Append(log, Step("len"))
  /\ Finish(LenOutcome(Cur, value))
  /\ UNCHANGED <<chain, mode, args, fcn_value>>

ValidateHasColumns ==
  /\ pc = "has_columns"
  /\ log' = Append(log, Step("has_columns"))
  /\ LET out == HasColumnsOutcome(Cur, value)
     IN IF out.kind = "continue"
          THEN /\ pc' = "empty"
               /\ UNCHANGED <<stage, value, is_empty, outcomes>>
          ELSE Finish(out)
  /\ UNCHANGED <<chain, mode, args, fcn_value>>

ValidateEmpty ==
  /\ pc = "empty"
  /\ log' = Append(log, Step("empty"))
  /\ LET out == EmptyOutcome(Cur, value)
     IN IF out.kind = "continue"
          THEN /\ pc' = "details"
               /\ is_empty' = out.is_empty
               /\ UNCHANGED <<stage, value, outcomes>>
          ELSE Finish(out)
  /\ UNCHANGED <<chain, mode, args, fcn_value>>

ValidateDetails ==
  /\ pc = "details"
  /\ \E order \in Orders(Cur.columns) :
       /\ log' = Append(log, [stage |-> stage, step |-> "details", order |-> order])
       /\ LET out == DetailsOutcome(Cur, value, is_empty, order)
          IN IF out.kind = "continue" THEN Finish(ReturnValue(value)) ELSE Finish(out)
  /\ UNCHANGED <<chain, mode, args, fcn_value>>

Next ==
  \/ CallFcn
  \/ ValidateNone
  \/ ValidateLen
  \/ ValidateHasColumns
  \/ ValidateEmpty
  \/ ValidateDetails

Spec == Init /\ [][Next]_vars

(***************************************************************************)
(* Vocabulary of the properties.                                           *)
(***************************************************************************)
Done == pc \in {"returned", "raised"}

Out == outcomes[Len(outcomes)]

\* the steps the validate call of stage s has taken
StepsOf(s) ==
  LET mine == SelectSeq(log, LAMBDA e : e.stage = s)
  IN [i \in 1..Len(mine) |-> mine[i].step]

IsPrefix(s, t) == Len(s) <= Len(t) /\ \A i \in 1..Len(s) : s[i] = t[i]

ColumnBased == Cur.type \in ColumnTypes

IsTable == value.kind = "table"

Missing == Cur.columns \ ColumnsOf(value)

TypeOK ==
  /\ pc \in {"call", "none", "len", "has_columns", "empty", "details", "returned", "raised"}
  /\ stage \in 1..Len(chain)
  /\ is_empty \in BOOLEAN
  /\ Len(outcomes) <= Len(chain)

(***************************************************************************)
(* Properties.                                                             *)
(***************************************************************************)
NoColumnConcept == Done /\ ColumnBased /\ value # NONE /\ ~HasColumnsAttr(value)

\* C1 as stated: a column-based validator given a non-None value without a
\* column concept fails with MissingColumnError.
C1_NoColumnsIsMissingColumn ==
  NoColumnConcept => Out.kind = "raised" /\ Out.exc = "MissingColumnError"

\* C1 amended: a column-based validator given a non-None value without a
\* column concept fails in the presence check with AttributeError, which is
\* not a ReturnValueError.
C1_NoColumnsIsAttributeError ==
  NoColumnConcept =>
    /\ Out.kind = "raised"
    /\ Out.exc = "AttributeError"
    /\ ~IsReturnValueError(Out.exc)
    /\ StepsOf(stage) = <<"none", "has_columns">>

C1_Witness ==
  /\ NoColumnConcept
  /\ value.kind = "sized"
  /\ Cur.type = "ColumnUnique"
  /\ Out.kind = "raised" /\ Out.exc = "AttributeError"

EmptyWithColumns == Done /\ ColumnBased /\ IsTable /\ value.rows = 0 /\ Missing = {}

\* C2: with allow_empty=True every column-based validator returns a zero-row
\* table that has all required columns unchanged, raising no detail error.
C2_AllowEmptySkipsDetails ==
  EmptyWithColumns /\ Cur.allow_empty => Out = Return(value)

\* C3: presence, emptiness and detail hook run in this order and the first
\* failing check decides: a missing column gives MissingColumnError whatever
\* the row count and allow_empty, a zero-row table with all columns and
\* allow_empty=False gives DFEmptyError, and no later check runs.
C3_CheckOrder ==
  /\ \A s \in 1..Len(chain) :
       chain[s].type \in ColumnTypes =>
         IsPrefix(StepsOf(s), <<"none", "has_columns", "empty", "details">>)
  /\ Done /\ ColumnBased /\ IsTable /\ Missing # {} =>
       /\ Out.kind = "raised" /\ Out.exc = "MissingColumnError"
       /\ Out.info = Missing
       /\ StepsOf(stage) = <<"none", "has_columns">>
  /\ EmptyWithColumns /\ ~Cur.allow_empty =>
       /\ Out.kind = "raised" /\ Out.exc = "DFEmptyError"
       /\ StepsOf(stage) = <<"none", "has_columns", "empty">>

C3_Witness ==
  /\ Done /\ ColumnBased /\ IsTable
  /\ value.rows = 0 /\ Missing # {} /\ ~Cur.allow_empty
  /\ Out.kind = "raised" /\ Out.exc = "MissingColumnError"

\* C4: validate(None) returns None after the None test alone when
\* allow_none=True and raises DFEmptyError when allow_none=False.
C4_NoneShortCircuits ==
  Done /\ value = NONE =>
    IF Cur.allow_none
      THEN Out = Return(NONE) /\ StepsOf(stage) = <<"none">>
      ELSE Out.kind = "raised" /\ Out.exc = "DFEmptyError" /\ StepsOf(stage) = <<"none">>

C4_Witness ==
  /\ Done /\ value = NONE /\ Cur.allow_none
  /\ Cur.type = "ColumnHasDtype" /\ Cur.columns # {}
  /\ Out = Return(NONE)

\* C5: a validate call that returns hands back the very instance it was
\* given, and validating that result again returns it again.
C5_ReturnsSameInstance ==
  /\ pc = "returned" =>
       /\ Out.kind = "returned" /\ Out.ret = value
       /\ \A order \in OrdersOf(Cur) : ValidateOp(Cur, Out.ret, order) = Out
  /\ \A s \in 1..Len(outcomes) :
       outcomes[s].kind = "returned" => outcomes[s].ret = fcn_value
  /\ Len(outcomes) = 2 /\ chain[1] = chain[2] => outcomes[2] = outcomes[1]

C5_Witness ==
  /\ pc = "returned" /\ Len(chain) = 2 /\ chain[1] = chain[2]
  /\ value.kind = "table" /\ Cur.type = "ColumnNotNull" /\ Cur.columns # {}
  /\ outcomes[2] = Return(fcn_value)

\* C6: NotEmpty on a non-None value: length zero raises DFEmptyError, a
\* non-zero length returns the value, a value without length returns the
\* value if allow_scalar and raises DFEmptyError otherwise.
C6_NotEmpty ==
  Done /\ Cur.type = "NotEmpty" /\ value # NONE =>
    IF HasLen(value)
      THEN IF PyLen(value) = 0
             THEN Out.kind = "raised" /\ Out.exc = "DFEmptyError"
             ELSE Out = Return(value)
      ELSE IF Cur.allow_scalar
             THEN Out = Return(value)
             ELSE Out.kind = "raised" /\ Out.exc = "DFEmptyError"

C6_Witness ==
  /\ Done /\ Cur.type = "NotEmpty" /\ Cur.allow_scalar
  /\ HasLen(value) /\ PyLen(value) = 0
  /\ Out.kind = "raised" /\ Out.exc = "DFEmptyError"

Decorated == mode = "decorated"

FcnCalls == SelectSeq(log, LAMBDA e : e.step = "fcn")

\* the number of times validate of stage s was entered
Entered(s) == Len(SelectSeq(log, LAMBDA e : e.stage = s /\ e.step = "none"))

\* C7: a wrapped function calls the original once with the caller's
\* arguments, then validate once on its result, and ends as validate ends;
\* with two validators the second validates what the first returned, and
\* does not run when the first raised.
C7_Wrapper ==
  Decorated =>
    /\ IF pc = "call"
         THEN log = <<>>
         ELSE Len(FcnCalls) = 1 /\ log[1] = [stage |-> 0, step |-> "fcn", args |-> args]
    /\ \A s \in 1..Len(chain) :
         Entered(s) = IF s <= Len(outcomes) \/ (s = stage /\ pc \notin {"call", "none"})
                        THEN 1 ELSE 0
    /\ Len(outcomes) >= 1 =>
         outcomes[1] \in {ValidateOp(chain[1], fcn_value, o) : o \in OrdersOf(chain[1])}
    /\ Len(outcomes) = 2 =>
         /\ outcomes[1].kind = "returned"
         /\ outcomes[2] \in {ValidateOp(chain[2], outcomes[1].ret, o) : o \in OrdersOf(chain[2])}
    /\ Len(outcomes) >= 1 /\ outcomes[1].kind = "raised" =>
         pc = "raised" /\ Len(outcomes) = 1 /\ StepsOf(2) = <<>>
    /\ Done => Len(outcomes) >= 1 /\ pc = Out.kind
    /\ pc = "returned" =>
         Len(outcomes) = Len(chain) /\ \A s \in 1..Len(chain) : outcomes[s].kind = "returned"

C7_Witness ==
  /\ Decorated /\ Len(chain) = 2 /\ pc = "raised"
  /\ Len(outcomes) = 1 /\ outcomes[1].exc = "MissingColumnError"
  /\ Len(FcnCalls) = 1 /\ args = <<"p">>

DetailCase(type) ==
  Done /\ Cur.type = type /\ IsTable /\ value.rows > 0 /\ Missing = {}

Named(info) == {info[i].column : i \in 1..Len(info)}

\* the configured columns that violate their null policy
NullViolations ==
  {c \in Cur.columns :
     LET nulls == IsNullCount(value.cols[c].cells)
     IN IF Cur.notnull[c] = "all" THEN nulls # 0 ELSE ~(nulls < value.rows)}

\* C8: ColumnNotNull on a non-empty table with its columns present raises one
\* ColumnNullError naming exactly the columns violating their policy (ALL:
\* no null, ANY: fewer nulls than rows), and returns the table if none does.
C8_NullPolicy ==
  DetailCase("ColumnNotNull") =>
    IF NullViolations # {}
      THEN /\ Out.kind = "raised" /\ Out.exc = "ColumnNullError"
           /\ Named(Out.info) = NullViolations
           /\ Len(Out.info) = Cardinality(NullViolations)
           /\ \A i \in 1..Len(Out.info) :
                /\ Out.info[i].nulls = IsNullCount(value.cols[Out.info[i].column].cells)
                /\ Out.info[i].expected = Cur.notnull[Out.info[i].column]
      ELSE Out = Return(value)

C8_Witness ==
  /\ DetailCase("ColumnNotNull")
  /\ Cur.notnull = [c \in {"a", "b"} |-> "any"]
  /\ IsNullCount(value.cols["b"].cells) = 1 /\ value.rows = 2
  /\ Out.kind = "raised" /\ Named(Out.info) = {"a"}

\* the configured columns whose type tag is not the expected one
DtypeMismatches == {c \in Cur.columns : value.cols[c].dtype # Cur.dtypes[c]}

\* C9: ColumnHasDtype on a non-empty table with its columns present raises
\* WrongDtypeError iff a configured column has another type tag than
\* expected, naming every such column with both tags, and returns the same
\* table otherwise.
C9_Dtype ==
  DetailCase("ColumnHasDtype") =>
    IF DtypeMismatches # {}
      THEN /\ Out.kind = "raised" /\ Out.exc = "WrongDtypeError"
           /\ Range(Out.info) =
                {[column |-> c, actual |-> value.cols[c].dtype, expected |-> Cur.dtypes[c]] :
                   c \in DtypeMismatches}
           /\ Len(Out.info) = Cardinality(DtypeMismatches)
      ELSE Out = Return(value)

C9_Witness ==
  /\ DetailCase("ColumnHasDtype")
  /\ Cardinality(DtypeMismatches) = 2
  /\ Out.kind = "raised" /\ Len(Out.info) = 2

\* the distinct non-null cells in order of first appearance
DistinctNonNull(cells) == SelectSeq(Unique(cells), LAMBDA c : c # NULL)

\* the configured columns with more than one distinct non-null value
MultiValued == {c \in Cur.columns : Len(DistinctNonNull(value.cols[c].cells)) > 1}

\* the order in which the detail hook that just ended examined the columns
Examined == log[Len(log)].order

\* the first element of the sequence order that lies in the set S
FirstIn(order, S) == order[Min({i \in 1..Len(order) : order[i] \in S})]

\* C10: ColumnSingleValue on a non-empty table with its columns present
\* raises ColumnNotSingleValueError iff a configured column has more than
\* one distinct non-null value, naming the first such column examined with
\* the first two distinct values found in it, and returns the table
\* otherwise.
C10_SingleValue ==
  DetailCase("ColumnSingleValue") =>
    IF MultiValued # {}
      THEN /\ Out.kind = "raised" /\ Out.exc = "ColumnNotSingleValueError"
           /\ Out.info.column = FirstIn(Examined, MultiValued)
           /\ Out.info.values = Head2(DistinctNonNull(value.cols[Out.info.column].cells))
      ELSE Out = Return(value)
====
